---- MODULE Spec2Model ----
(***************************************************************************)
(* A model of ABRequestService (src/utils/reqService.js) and of the        *)
(* envelope builder ABServiceCote (src/utils/reqServiceCote.js): the       *)
(* per-job request context, its connection routing, its query retry, its   *)
(* condition builder and its service envelope.                             *)
(*                                                                         *)
(* JavaScript values are tagged records.  A string is the sequence of its  *)
(* characters, so that concatenation, joining and counting placeholders    *)
(* are computed and not assumed.                                           *)
(***************************************************************************)
EXTENDS Integers, Sequences, FiniteSets, TLC

VARIABLES
    controller,  \* the shared service controller: key and connection table
    req,         \* the raw job each context was constructed from
    ctx,         \* the contexts: the fields the constructor sets
    ret,         \* per context, the last completed synchronous call
    sent,        \* the envelopes handed to the RPC transport, in order
    calls,       \* the query() calls: position, attempt, stashed outcome
    driver,      \* per call, the executions issued to the storage driver
    completed,   \* per call, the outcomes the driver completed with
    delivered,   \* per call, the invocations of the caller's callback
    bound,       \* the context the closures set on the shared methods close over
    log,         \* what the collaborators and the callers saw, in order
    ops          \* the number of calls the application made

vars == <<controller, req, ctx, ret, sent, calls, driver, completed, delivered,
          bound, log, ops>>

---------------------------------------------------------------------------
(* JavaScript values *)

Undefined == [type |-> "undefined"]
Null == [type |-> "null"]
Str(s) == [type |-> "string", chars |-> s]
Num(n) == [type |-> "number", n |-> n]
Bool(b) == [type |-> "boolean", b |-> b]
Arr(items) == [type |-> "array", items |-> items]
\* A plain object whose keys are read by name: fields is a function from them.
Obj(fields) == [type |-> "object", fields |-> fields]
\* A plain object whose keys are iterated: entries is the sequence of its
\* [key, value] pairs in Object.keys order.
Map(entries) == [type |-> "object", entries |-> entries]
EmptyObject == Obj(<<>>)

\* ToBoolean: what `||`, `if (x)` and `x ? :` test.
Truthy(v) ==
    CASE v.type = "undefined" -> FALSE
      [] v.type = "null" -> FALSE
      [] v.type = "string" -> v.chars # <<>>
      [] v.type = "number" -> v.n # 0
      [] v.type = "boolean" -> v.b
      [] OTHER -> TRUE

\* a || b
Or(a, b) == IF Truthy(a) THEN a ELSE b

\* obj[key] on a plain object held as a function from its own keys.
Get(obj, key) == IF key \in DOMAIN obj THEN obj[key] ELSE Undefined

\* Array.prototype.join on a sequence of strings.
RECURSIVE Join(_, _)
Join(parts, sep) ==
    IF parts = <<>> THEN <<>>
    ELSE IF Len(parts) = 1 THEN parts[1]
    ELSE parts[1] \o sep \o Join(Tail(parts), sep)

\* The number of occurrences of character ch in the string s.
RECURSIVE Count(_, _)
Count(s, ch) ==
    IF s = <<>> THEN 0
    ELSE (IF Head(s) = ch THEN 1 ELSE 0) + Count(Tail(s), ch)

\* The string "??": the sentinel of a missing job id or tenant id.
Unknown == Str(<<"?", "?">>)

---------------------------------------------------------------------------
(* The context *)

CtxIds == {1, 2, 3}

NoCtx == [type |-> "none"]
NoRet == [op |-> "none"]

\* new ABRequestService(req, controller): the fields it sets.
Constructor(r, ctl) ==
    LET jobID == Or(r.jobID, Unknown)
    IN  [ jobID |-> jobID,
          _tenantID |-> Or(r.tenantID, Unknown),
          _user |-> Or(r.user, Null),
          serviceKey |-> Or(ctl.key, jobID),
          data |-> Or(r.data, r.param),
          controller |-> ctl,
          _DBConn |-> "DBConn",
          _Model |-> "Model",
          debug |-> FALSE ]

\* tenantID(): null for the sentinel.
tenantID(c) == IF c._tenantID = Unknown THEN Null ELSE c._tenantID

\* A variant of configDB with the two keys exchanged.
configDBWrongKey(c, ctl) ==
    LET defs == ctl.connections
    IN  IF c._tenantID # Unknown
        THEN IF Truthy(Get(defs, "site")) THEN Get(defs, "site") ELSE Null
        ELSE IF Truthy(Get(defs, "appbuilder"))
             THEN Get(defs, "appbuilder") ELSE Null

\* configDB(): the connection definition of the context's tenant state.
configDB(c, ctl) ==
    LET defs == ctl.connections
    IN  IF c._tenantID # Unknown
        THEN IF Truthy(Get(defs, "appbuilder"))
             THEN Get(defs, "appbuilder") ELSE Null
        ELSE IF Truthy(Get(defs, "site")) THEN Get(defs, "site") ELSE Null

\* A variant of socketKey that leaves the tenant id out.
socketKeyNoTenant(c, key) == Str(<<"-">> \o key.chars)

\* socketKey(key): `${this._tenantID}-${key}`.
socketKey(c, key) == Str(c._tenantID.chars \o <<"-">> \o key.chars)

---------------------------------------------------------------------------
(* queryWhereCondition *)

EqClause == <<" ", "=", " ", "?">>
InClause == <<" ", "I", "N", " ", "(", " ", "?", " ", ")">>
FalseClause == <<" ", "1", " ", "=", " ", "0", " ">>
AndSep == <<" ", "A", "N", "D", " ">>

\* A variant of condValues that never pops.
RECURSIVE condValuesNoPop(_)
condValuesNoPop(entries) ==
    IF entries = <<>> THEN <<>>
    ELSE <<Head(entries).value>> \o condValuesNoPop(Tail(entries))

\* A variant of condValues that fills the array from the last key.
RECURSIVE condValuesReversed(_)
condValuesReversed(entries) ==
    IF entries = <<>> THEN <<>>
    ELSE LET v == Head(entries).value
             pushed == condValuesReversed(Tail(entries)) \o <<v>>
         IN  IF v.type = "array" /\ Len(v.items) = 0
             THEN SubSeq(pushed, 1, Len(pushed) - 1)
             ELSE pushed

\* The values array after the forEach: each value is pushed, and popped
\* again when it is an empty array.
RECURSIVE condValues(_)
condValues(entries) ==
    IF entries = <<>> THEN <<>>
    ELSE LET v == Head(entries).value
             pushed == <<v>>
         IN  (IF v.type = "array" /\ Len(v.items) = 0
              THEN SubSeq(pushed, 1, Len(pushed) - 1)
              ELSE pushed) \o condValues(Tail(entries))

\* The clause pushed on params for one key.
condClause(e) ==
    IF e.value.type = "array"
    THEN IF Len(e.value.items) > 0 THEN e.key \o InClause ELSE FalseClause
    ELSE e.key \o EqClause

condParams(entries) == [i \in 1..Len(entries) |-> condClause(entries[i])]

\* queryWhereCondition(cond): { condition, values }.
queryWhereCondition(cond) ==
    IF Truthy(cond)
    THEN [ condition |-> Str(Join(condParams(cond.entries), AndSep)),
           values |-> Arr(condValues(cond.entries)) ]
    ELSE [ condition |-> Str(<<>>), values |-> Arr(<<>>) ]

---------------------------------------------------------------------------
(* serviceRequest *)

\* A variant of toParam without the `data || {}`.
toParamRawData(c, key, data) ==
    [ type |-> key,
      param |-> [ jobID |-> c.jobID, tenantID |-> c._tenantID,
                  user |-> c._user, data |-> data ] ]

\* ABServiceCote.toParam(key, data): the envelope.
toParam(c, key, data) ==
    [ type |-> key,
      param |-> [ jobID |-> c.jobID, tenantID |-> c._tenantID,
                  user |-> c._user, data |-> Or(data, EmptyObject) ] ]

---------------------------------------------------------------------------
(* query *)

MaxCalls == 2
CallIds == 1..MaxCalls

\* The last attempt number that is still executed: query() gives up when
\* numRetries > 3.
RetryLimit == 3

\* The word the handler looks for in error.toString().
Marker == "PROTOCOL_ENQUEUE_AFTER_FATAL_ERROR"

\* The messages the driver fails with, as sequences of words.
TransientMessages ==
    { <<Marker>>, <<"Cannot", "enqueue", "Query", Marker>> }
FatalMessages == { <<"ER_PARSE_ERROR">> }

\* The Error object of attempt n of call c.
Err(message, c, n) ==
    [ type |-> "error", message |-> message, of |-> <<c, n>>,
      sql |-> Undefined ]

\* error.toString(): the name, then the message.
ErrorToString(e) == <<"Error:">> \o e.message

\* String.prototype.indexOf, on words: the 0-based place of the first
\* occurrence of w in s, or -1.
IndexOf(s, w) ==
    IF \E i \in 1..Len(s) : s[i] = w
    THEN (CHOOSE i \in 1..Len(s) :
              s[i] = w /\ \A j \in 1..(i - 1) : s[j] # w) - 1
    ELSE -1

\* A variant of IsTransient that takes every failure for a transient one.
IsTransientAlways(error) == TRUE

\* The test that sends a failed attempt to the retry.
IsTransient(error) == IndexOf(ErrorToString(error), Marker) > -1

\* The number of executions issued so far by the calls 1..n together.
RECURSIVE Executions(_)
Executions(n) == IF n = 0 THEN 0 ELSE Len(driver[n]) + Executions(n - 1)

\* A variant of GivesUp with one budget for all the calls.
GivesUpShared(numRetries) == Executions(MaxCalls) > RetryLimit

\* A variant of GivesUp that ends the retries one attempt sooner.
GivesUpEarly(numRetries) == numRetries >= RetryLimit

\* The guard that ends the retries: numRetries > 3.
GivesUp(numRetries) == numRetries > RetryLimit

\* A variant of Stash that keeps the outcome of the first attempt.
StashFirst(prev, outcome) == IF prev = Null THEN outcome ELSE prev

\* The outcome handed to the retry as prev: { error, results, fields } of
\* the attempt that just failed.
Stash(prev, outcome) == outcome

\* A variant of Forwarded that leaves the error as the driver gave it.
ForwardedBare(q, prev, outcome) == outcome

\* A variant of Forwarded that hands a success after a retry the stash.
ForwardedStashed(q, prev, outcome) ==
    IF prev # Null /\ ~Truthy(outcome.error) THEN prev ELSE outcome

\* The arguments of cb(error, results, fields) on the path without retry:
\* an error is first given the executed text, error.sql = q.sql.
Forwarded(q, prev, outcome) ==
    IF Truthy(outcome.error)
    THEN [outcome EXCEPT !.error.sql = q.sql]
    ELSE outcome

\* The query text and the values of call c.
QueryText(c) == Str(<<"S", "E", "L", "E", "C", "T", " ", "?">>)
QueryValues(c) == Arr(<<Num(c)>>)

\* The Query object the driver returns: it carries the text it executes.
DriverQuery(text, values) ==
    [ sql |-> [ type |-> "sql", text |-> text, values |-> values ] ]

NoCall == [ pc |-> "idle" ]

\* query(query, values, cb, numRetries, prev) of call c on context i, up to
\* its return.
query(i, c, text, values, numRetries, prev) ==
    IF GivesUp(numRetries)
    THEN /\ delivered' = [delivered EXCEPT ![c] = Append(@, prev)]
         /\ calls' = [calls EXCEPT ![c] = [ pc |-> "done", this |-> i ]]
         /\ UNCHANGED driver
    ELSE /\ driver' = [driver EXCEPT ![c] =
                Append(@, [ q |-> DriverQuery(text, values),
                            numRetries |-> numRetries,
                            outcome |-> Null ])]
         /\ calls' = [calls EXCEPT ![c] =
                [ pc |-> "inflight", this |-> i, query |-> text,
                  values |-> values, numRetries |-> numRetries,
                  prev |-> prev ]]
         /\ UNCHANGED delivered

\* The driver's completion callback of the execution in flight, lines
\* 402-429: a transient failure re-enters query() with the next attempt
\* number and the failed outcome; anything else goes to cb.
DriverReply(c, outcome) ==
    /\ calls[c].pc = "inflight"
    /\ completed' = [completed EXCEPT ![c] = Append(@, outcome)]
    /\ IF Truthy(outcome.error) /\ IsTransient(outcome.error)
       THEN query(calls[c].this, c, calls[c].query, calls[c].values,
                  calls[c].numRetries + 1, Stash(calls[c].prev, outcome))
       ELSE /\ delivered' = [delivered EXCEPT ![c] =
                   Append(@, Forwarded(driver[c][Len(driver[c])].q,
                                       calls[c].prev, outcome))]
            /\ calls' = [calls EXCEPT ![c] =
                   [ pc |-> "done", this |-> calls[c].this ]]
            /\ UNCHANGED driver
    /\ UNCHANGED <<bound, log, controller, req, ctx, ret, sent>>

\* A caller's query(query, values, cb): numRetries = 0, prev = null.
Query(i, c) ==
    /\ ctx[i] # NoCtx
    /\ calls[c].pc = "idle"
    /\ query(i, c, QueryText(c), QueryValues(c), 0, Null)
    /\ UNCHANGED <<bound, log, controller, req, ctx, ret, sent, completed>>

\* What the driver can complete attempt n of call c with.
Outcomes(c, n) ==
    { [ error |-> e,
        results |-> [ type |-> "results", of |-> <<c, n>> ],
        fields |-> [ type |-> "fields", of |-> <<c, n>> ] ] :
      e \in {Null} \cup { Err(m, c, n) :
                            m \in TransientMessages \cup FatalMessages } }

---------------------------------------------------------------------------
(* The calls on a context *)

MaxSent == 2

\* A request the transport has not answered.
NoReply == [ type |-> "none" ]
\* The callback of a caller of this module.
CallerCallback == [ kind |-> "caller" ]
\* No callback given.
NoCallback == [ kind |-> "none" ]

\* ServiceRequest.request(key, data, cb): the envelope of toParam goes to
\* the transport.  The entry keeps the call's own arguments beside it.
\* cb waits for the reply.
request(i, key, data, cb) ==
    sent' = Append(sent, [ ctx |-> i, key |-> key, data |-> data,
                           envelope |-> toParam(ctx[i], key, data),
                           cb |-> cb, reply |-> NoReply ])

\* serviceRequest(key, data, cb)
serviceRequest(i, key, data, cb) == request(i, key, data, cb)

Returned(i, op, args, value) ==
    ret' = [ret EXCEPT ![i] = [ op |-> op, args |-> args, value |-> value ]]

ConfigDB(i) ==
    /\ ctx[i] # NoCtx
    /\ Returned(i, "configDB", <<>>, configDB(ctx[i], controller))
    /\ UNCHANGED <<bound, log, controller, req, ctx, sent, calls, driver, completed,
                   delivered>>

SocketKey(i, key) ==
    /\ ctx[i] # NoCtx
    /\ Returned(i, "socketKey", <<key>>, socketKey(ctx[i], key))
    /\ UNCHANGED <<bound, log, controller, req, ctx, sent, calls, driver, completed,
                   delivered>>

QueryWhereCondition(i, cond) ==
    /\ ctx[i] # NoCtx
    /\ Returned(i, "queryWhereCondition", <<cond>>, queryWhereCondition(cond))
    /\ UNCHANGED <<bound, log, controller, req, ctx, sent, calls, driver, completed,
                   delivered>>

ServiceRequest(i, key, data) ==
    /\ ctx[i] # NoCtx
    /\ Len(sent) < MaxSent
    /\ serviceRequest(i, key, data, CallerCallback)
    /\ Returned(i, "serviceRequest", <<key, data>>, Undefined)
    /\ UNCHANGED <<bound, log, controller, req, ctx, calls, driver, completed, delivered>>

\* module.exports(req, controller): a job arrives and its context is
\* constructed.  The constructor sets notify.builder, notify.developer and
\* broadcast.dcCreate, dcDelete, dcUpdate on the methods notify and
\* broadcast, which all contexts share through the prototype: from then on
\* these closures are the ones of the new context.
NewRequest(i, r) ==
    /\ ctx[i] = NoCtx
    /\ ctx' = [ctx EXCEPT ![i] = Constructor(r, controller)]
    /\ req' = [req EXCEPT ![i] = r]
    /\ bound' = i
    /\ UNCHANGED <<controller, ret, sent, log, calls, driver, completed,
                   delivered>>

---------------------------------------------------------------------------
(* The accessors *)

\* What a call that throws ends with.
Thrown(name) == [ type |-> "thrown", error |-> name ]

\* param(key): this.data[key], which throws when data is undefined.
param(c, key) ==
    IF c.data \in { Undefined, Null } THEN Thrown("TypeError")
    ELSE Get(c.data.fields, key)

\* A variant of params that hands out data itself.
paramsShared(c, ignoreList) ==
    IF c.data \in { Undefined, Null } THEN Thrown("TypeError")
    ELSE [ type |-> "reference", ref |-> "data", obj |-> c.data ]

\* params(ignoreList): a new object with the keys of data that are not in
\* ignoreList.  ref tells which object the caller holds: a new one, or data.
params(c, ignoreList) ==
    IF c.data \in { Undefined, Null } THEN Thrown("TypeError")
    ELSE [ type |-> "reference", ref |-> "fresh",
           obj |-> Obj([ k \in { x \in DOMAIN c.data.fields :
                                   \A n \in 1..Len(ignoreList) :
                                       ignoreList[n] # x }
                           |-> param(c, k) ]) ]

\* log(...allArgs): a line on the console.
consoleLog(i, line) == << [ ev |-> "console", ctx |-> i, line |-> line ] >>

\* languageCode(): does the user have one.
HasLanguageCode(c) ==
    Truthy(c._user) /\ Truthy(Get(c._user.fields, "languageCode"))

languageCode(c) ==
    IF HasLanguageCode(c) THEN c._user.fields.languageCode
    ELSE Str(<<"e", "n">>)

\* A variant of username that falls back whenever languageCode does.
usernameWithLanguage(c) ==
    IF HasLanguageCode(c) /\ Truthy(Get(c._user.fields, "username"))
    THEN c._user.fields.username
    ELSE Str(<<"_system_">>)

username(c) ==
    IF Truthy(c._user) /\ Truthy(Get(c._user.fields, "username"))
    THEN c._user.fields.username
    ELSE Str(<<"_system_">>)

userDefaults(c) ==
    Obj([ languageCode |-> languageCode(c), username |-> username(c) ])

Param(i, key) ==
    /\ ctx[i] # NoCtx
    /\ Returned(i, "param", <<key>>, param(ctx[i], key))
    /\ UNCHANGED <<controller, req, ctx, sent, bound, log, calls, driver,
                   completed, delivered>>

Params(i, ignoreList) ==
    /\ ctx[i] # NoCtx
    /\ Returned(i, "params", <<ignoreList>>, params(ctx[i], ignoreList))
    /\ UNCHANGED <<controller, req, ctx, sent, bound, log, calls, driver,
                   completed, delivered>>

\* The caller of params sets a key of the object it was handed.  When that
\* object is data, data has the key set.
Change(i, key, value) ==
    /\ ret[i].op = "params"
    /\ ret[i].value.type = "reference"
    /\ Get(ret[i].value.obj.fields, key) # value
    /\ LET fields == ret[i].value.obj.fields
           changed == Obj([ k \in DOMAIN fields \cup { key } |->
                              IF k = key THEN value ELSE fields[k] ])
       IN  /\ ret' = [ret EXCEPT ![i].value.obj = changed]
           /\ ctx' = IF ret[i].value.ref = "data"
                     THEN [ctx EXCEPT ![i].data = changed]
                     ELSE ctx
    /\ UNCHANGED <<controller, req, sent, bound, log, calls, driver,
                   completed, delivered>>

TenantID(i) ==
    /\ ctx[i] # NoCtx
    /\ Returned(i, "tenantID", <<>>, tenantID(ctx[i]))
    /\ UNCHANGED <<controller, req, ctx, sent, bound, log, calls, driver,
                   completed, delivered>>

UserDefaults(i) ==
    /\ ctx[i] # NoCtx
    /\ Returned(i, "userDefaults", <<>>, userDefaults(ctx[i]))
    /\ log' = log \o (IF HasLanguageCode(ctx[i]) THEN <<>>
                       ELSE consoleLog(i, "no language code set"))
    /\ UNCHANGED <<controller, req, ctx, sent, bound, calls, driver,
                   completed, delivered>>

---------------------------------------------------------------------------
(* tenantDB and queryTenantDB *)

\* config()
config(c) == c.controller.config

\* dbConnection().escapeId(name): the name between backticks, a backtick in
\* it doubled.
\* The backtick character.
Backtick == "BACKTICK"

RECURSIVE escapeChars(_)
escapeChars(s) ==
    IF s = <<>> THEN <<>>
    ELSE (IF Head(s) = Backtick THEN <<Backtick, Backtick>> ELSE <<Head(s)>>)
         \o escapeChars(Tail(s))

escapeId(name) == Str(<<Backtick>> \o escapeChars(name.chars) \o <<Backtick>>)

\* A variant of tenantDB that does not look at config.site_only.
tenantDBIgnoresSiteOnly(c) ==
    LET connSettings == configDB(c, c.controller)
    IN  IF Truthy(tenantID(c))
           /\ Truthy(connSettings)
           /\ Truthy(Get(connSettings.fields, "database"))
        THEN escapeId(Str(connSettings.fields.database.chars \o <<"-">>
                          \o tenantID(c).chars))
        ELSE Str(<<>>)

\* tenantDB(): the escaped `${connSettings.database}-${tenantID}`, or "".
tenantDB(c) ==
    LET connSettings == configDB(c, c.controller)
    IN  IF Truthy(tenantID(c))
           /\ ~Truthy(Get(config(c).fields, "site_only"))
           /\ Truthy(connSettings)
           /\ Truthy(Get(connSettings.fields, "database"))
        THEN escapeId(Str(connSettings.fields.database.chars \o <<"-">>
                          \o tenantID(c).chars))
        ELSE Str(<<>>)

\* `${this.tenantID()}` in a template string.
TenantText(c) ==
    IF tenantID(c) = Null THEN <<"null">> ELSE tenantID(c).chars

\* The error queryTenantDB builds.
ErrorNoTenant(c) ==
    [ type |-> "error", code |-> "ENOTENANT",
      message |-> <<"Unable to find tenant information for tenantID[">>
                  \o TenantText(c) \o <<"]">> ]

\* queryTenantDB(reject) on context i: what it returns, and the calls of
\* reject it makes.
queryTenantDB(c) ==
    IF tenantDB(c) = Str(<<>>)
    THEN [ value |-> Bool(FALSE), rejected |-> << ErrorNoTenant(c) >> ]
    ELSE [ value |-> tenantDB(c), rejected |-> <<>> ]

QueryTenantDB(i) ==
    /\ ctx[i] # NoCtx
    /\ Returned(i, "queryTenantDB", <<>>, queryTenantDB(ctx[i]).value)
    /\ log' = log \o [ n \in 1..Len(queryTenantDB(ctx[i]).rejected) |->
                          [ ev |-> "reject", ctx |-> i,
                            error |-> queryTenantDB(ctx[i]).rejected[n] ] ]
    /\ UNCHANGED <<controller, req, ctx, sent, bound, calls, driver,
                   completed, delivered>>

---------------------------------------------------------------------------
(* toABFactoryReq *)

\* A unit test substitutes mocks for the storage driver and the model class
\* of context i.
Mock(i) ==
    /\ ctx[i] # NoCtx
    /\ ctx[i]._DBConn = "DBConn"
    /\ ctx' = [ctx EXCEPT ![i]._DBConn = "MockDBConn",
                           ![i]._Model = "MockModel"]
    /\ ret' = [ret EXCEPT ![i] = [ op |-> "mock", args |-> <<>>,
                                   value |-> Undefined ]]
    /\ UNCHANGED <<controller, req, sent, bound, log, calls, driver,
                   completed, delivered>>

\* The req toABFactoryReq builds: `ABFactory(${this._tenantID})` and the
\* tenant id, nothing else.
FactoryReq(c) ==
    [ jobID |-> Str(<<"ABFactory", "(">> \o c._tenantID.chars \o <<")">>),
      tenantID |-> c._tenantID, user |-> Undefined, data |-> Undefined,
      param |-> Undefined ]

\* A variant of toABFactoryReq that keeps the bindings of the constructor.
toABFactoryReqOwnBindings(c) == Constructor(FactoryReq(c), c.controller)

\* toABFactoryReq() on the context with fields c: the fields of the context
\* it returns.
toABFactoryReq(c) ==
    [ Constructor(FactoryReq(c), c.controller)
        EXCEPT !._DBConn = c._DBConn, !._Model = c._Model ]

\* Context i calls toABFactoryReq(); the context it returns is j.  ret[i]
\* keeps the fields of the returned context and those of i before the call.
ToABFactoryReq(i, j) ==
    /\ ctx[i] # NoCtx
    /\ ctx[j] = NoCtx
    /\ ctx' = [ctx EXCEPT ![j] = toABFactoryReq(ctx[i])]
    /\ req' = [req EXCEPT ![j] = FactoryReq(ctx[i])]
    /\ bound' = j
    /\ ret' = [ret EXCEPT ![i] = [ op |-> "toABFactoryReq", args |-> <<>>,
                                   value |-> [ ref |-> j,
                                               fields |-> ctx'[j] ],
                                   before |-> ctx[i] ]]
    /\ UNCHANGED <<controller, sent, log, calls, driver, completed,
                   delivered>>

---------------------------------------------------------------------------
(* broadcast *)

ApiBroadcast == Str(<<"api", ".", "broadcast">>)

\* __Notification.notify(domain, error, info) of context b.
notifierNotify(b, domain, error, info) ==
    << [ ev |-> "alert", notifier |-> b, domain |-> domain, error |-> error,
         info |-> info ] >>

\* notify(domain, error, info) on context b.
notify(b, domain, error, info) == notifierNotify(b, domain, error, info)

\* notify.developer(...params): the closure of the context b it closes over.
notifyDeveloper(b, error, info) == notify(b, "developer", error, info)

\* performance.mark(key) and performance.measure(key) of context b.
performanceMark(b, key) == << [ ev |-> "mark", ctx |-> b, key |-> key ] >>
performanceMeasure(b, key) == << [ ev |-> "measure", ctx |-> b, key |-> key ] >>

\* A callback of a caller of this module is invoked.
callerCallback(k, err, results) ==
    << [ ev |-> "callback", request |-> k, err |-> err, results |-> results ] >>

\* A variant of dcCallback that invokes the legacy callback last.
dcCallbackLegacyLast(k, cb, err) ==
    performanceMeasure(cb.self, cb.timer)
    \o (IF Truthy(err)
        THEN << [ ev |-> "rejected", request |-> k, err |-> err ] >>
        ELSE << [ ev |-> "resolved", request |-> k ] >>)
    \o (IF cb.legacy
        THEN << [ ev |-> "legacy", request |-> k, err |-> err ] >>
        ELSE <<>>)

\* A variant of dcCallback that resolves whatever the reply.
dcCallbackAlwaysResolves(k, cb, err) ==
    performanceMeasure(cb.self, cb.timer)
    \o (IF cb.legacy
        THEN << [ ev |-> "legacy", request |-> k, err |-> err ] >>
        ELSE <<>>)
    \o << [ ev |-> "resolved", request |-> k ] >>

\* The callback dcCreate, dcDelete and dcUpdate give broadcast:
\* (err) => { measure(key); if (cb) cb(err); if (err) reject(err) else resolve() }
dcCallback(k, cb, err) ==
    performanceMeasure(cb.self, cb.timer)
    \o (IF cb.legacy
        THEN << [ ev |-> "legacy", request |-> k, err |-> err ] >>
        ELSE <<>>)
    \o (IF Truthy(err)
        THEN << [ ev |-> "rejected", request |-> k, err |-> err ] >>
        ELSE << [ ev |-> "resolved", request |-> k ] >>)

\* `if (cb) cb(err, results)` in the callback of broadcast.
broadcastInner(k, cb, err, results) ==
    CASE cb.kind = "none" -> <<>>
      [] cb.kind = "caller" -> callerCallback(k, err, results)
      [] cb.kind = "dc" -> dcCallback(k, cb, err)

\* A variant of broadcastCallback that raises no alert without a callback.
broadcastCallbackQuiet(k, cont, err, results, b) ==
    IF cont.cb.kind = "none" THEN <<>>
    ELSE (IF Truthy(err)
          THEN notifyDeveloper(b, err, [ tenantID |-> ctx[cont.this]._tenantID,
                                         jobID |-> ctx[cont.this].jobID ])
          ELSE <<>>)
         \o broadcastInner(k, cont.cb, err, results)

\* The callback broadcast gives serviceRequest, in the context cont.this,
\* with b the context notify.developer closes over.
broadcastCallback(k, cont, err, results, b) ==
    (IF Truthy(err)
     THEN notifyDeveloper(b, err, [ tenantID |-> ctx[cont.this]._tenantID,
                                    jobID |-> ctx[cont.this].jobID ])
     ELSE <<>>)
    \o broadcastInner(k, cont.cb, err, results)

\* broadcast(packets, cb) on context i.
broadcast(i, packets, cb) ==
    serviceRequest(i, ApiBroadcast, packets,
                   [ kind |-> "broadcast", this |-> i, cb |-> cb ])

\* The transport answers request k: the callback given to request runs.
TransportReply(k, err, results) ==
    /\ k \in 1..Len(sent)
    /\ sent[k].reply = NoReply
    /\ sent' = [sent EXCEPT ![k].reply = [ err |-> err, results |-> results ]]
    /\ log' = log \o
          (CASE sent[k].cb.kind = "none" -> <<>>
             [] sent[k].cb.kind = "caller" -> callerCallback(k, err, results)
             [] sent[k].cb.kind = "broadcast" ->
                    broadcastCallback(k, sent[k].cb, err, results, bound))
    /\ UNCHANGED <<controller, req, ctx, ret, bound, calls, driver, completed,
                   delivered>>

\* A caller's broadcast(packets, cb), with or without cb.
Broadcast(i, packets, cb) ==
    /\ ctx[i] # NoCtx
    /\ Len(sent) < MaxSent
    /\ broadcast(i, packets, cb)
    /\ log' = Append(log, [ ev |-> "sent", request |-> Len(sent) + 1,
                             on |-> i, packets |-> packets, cb |-> cb ])
    /\ UNCHANGED <<controller, req, ctx, ret, bound, calls, driver, completed,
                   delivered>>

\* The body shared by broadcast.dcCreate, dcDelete and dcUpdate, called on
\* context i: `this` in it is the context the closure closes over.  The
\* promise it returns is the one of the request it sends.
dcShortcut(name, i, id, item, key, legacy) ==
    LET self == bound
        timer == Or(key, Str(<<"broadcast", ".", "dc", ".", name, ".">>
                             \o id.chars))
        packet == Obj([ room |-> socketKey(ctx[self], id),
                        event |-> Str(<<"ab", ".", "datacollection", ".", name>>),
                        data |-> Obj([ objectId |-> id, data |-> item ]) ])
    IN  /\ ctx[i] # NoCtx
        /\ Len(sent) < MaxSent
        /\ broadcast(self, Arr(<<packet>>),
                     [ kind |-> "dc", self |-> self, timer |-> timer,
                       legacy |-> legacy, name |-> name, on |-> i,
                       id |-> id, item |-> item, key |-> key ])
        /\ log' = log \o performanceMark(self, timer)
                      \o << [ ev |-> "sent", request |-> Len(sent) + 1 ] >>
        /\ UNCHANGED <<controller, req, ctx, ret, bound, calls, driver,
                       completed, delivered>>

\* broadcast.dcCreate(id, newItem, key, cb)
DcCreate(i, id, newItem, key, legacy) ==
    dcShortcut("create", i, id, newItem, key, legacy)

\* broadcast.dcDelete(id, itemID, key, cb)
DcDelete(i, id, itemID, key, legacy) ==
    dcShortcut("delete", i, id, itemID, key, legacy)

\* broadcast.dcUpdate(id, updatedItem, key, cb)
DcUpdate(i, id, updatedItem, key, legacy) ==
    dcShortcut("update", i, id, updatedItem, key, legacy)

---------------------------------------------------------------------------
(* Inputs *)

TenantA == Str(<<"a">>)
TenantAB == Str(<<"a", "-", "b">>)
\* req.tenantID as a job carries it: absent, null, the sentinel, or an id.
TenantInputs == { Undefined, Null, Unknown, TenantA, TenantAB }

JobInputs == { Undefined, Str(<<"j", "1">>) }
User1 == Obj([ username |-> Str(<<"u">>), languageCode |-> Str(<<"f", "r">>) ])
UserInputs == { Undefined, User1 }
Data1 == Obj([ id |-> Num(7) ])

Reqs ==
    [ jobID : JobInputs, tenantID : TenantInputs, user : UserInputs,
      data : { Data1 }, param : { Undefined } ]

DefAppbuilder == Obj([ database |-> Str(<<"a", "b">>) ])
DefSite == Obj([ database |-> Str(<<"s">>) ])
\* The connection tables: any of the two keys may be missing.
Tables ==
    { [ k \in S |-> IF k = "appbuilder" THEN DefAppbuilder ELSE DefSite ] :
      S \in SUBSET { "appbuilder", "site" } }

Controllers ==
    [ key : { Str(<<"s", "v", "c">>) }, config : { EmptyObject },
      connections : Tables ]

RoomKeys == { Str(<<"c">>), Str(<<"b", "-", "c">>), Str(<<"b">>) }

ServiceKeys == { Str(<<"k", "1">>), Str(<<"k", "2">>) }
Payloads == { Undefined, Null, Num(0), Str(<<>>), Data1 }

NoQueries ==
    /\ calls = [ c \in CallIds |-> NoCall ]
    /\ driver = [ c \in CallIds |-> <<>> ]
    /\ completed = [ c \in CallIds |-> <<>> ]
    /\ delivered = [ c \in CallIds |-> <<>> ]

\* The contexts constructed from the jobs r, one per context id it names.
Constructed(r) ==
    /\ req = r
    /\ ctx = [ i \in CtxIds |->
                 IF r[i] = NoCtx THEN NoCtx ELSE Constructor(r[i], controller) ]
    /\ ret = [ i \in CtxIds |-> NoRet ]
    /\ sent = <<>>
    /\ bound = CHOOSE i \in CtxIds :
                   r[i] # NoCtx /\ \A j \in CtxIds : r[j] # NoCtx => j <= i
    /\ log = <<>>
    /\ ops = 0

---------------------------------------------------------------------------
(* The request context of one job *)

Init ==
    /\ controller \in Controllers
    /\ \E r \in Reqs : Constructed([ i \in CtxIds |-> IF i = 1 THEN r ELSE NoCtx ])
    /\ NoQueries

Next ==
    \/ \E i \in CtxIds : ConfigDB(i) /\ UNCHANGED ops
    \/ \E i \in CtxIds, key \in RoomKeys : SocketKey(i, key) /\ UNCHANGED ops
    \/ \E i \in CtxIds, key \in ServiceKeys, data \in Payloads :
           ServiceRequest(i, key, data) /\ UNCHANGED ops

Spec == Init /\ [][Next]_vars

---------------------------------------------------------------------------
(* Two contexts of two jobs, and the rooms they name *)

RoomReqs ==
    [ jobID : { Str(<<"j", "1">>) }, tenantID : TenantInputs,
      user : { Undefined }, data : { Data1 }, param : { Undefined } ]

InitRooms ==
    /\ controller \in { ctl \in Controllers :
                            DOMAIN ctl.connections = { "appbuilder", "site" } }
    /\ \E r1, r2 \in RoomReqs :
           Constructed([ i \in CtxIds |->
                           IF i = 1 THEN r1 ELSE IF i = 2 THEN r2 ELSE NoCtx ])
    /\ NoQueries

NextRooms ==
    \E i \in CtxIds, key \in RoomKeys : SocketKey(i, key) /\ UNCHANGED ops

SpecRooms == InitRooms /\ [][NextRooms]_vars

---------------------------------------------------------------------------
(* The condition builder on condition maps *)

MaxFields == 2

CondKeys == { <<"a">>, <<"b">>, <<"i", "d">> }
CondValues ==
    { Num(5), Str(<<"x">>), Null, Arr(<<>>), Arr(<<Num(1), Num(2)>>) }

\* The condition maps of up to MaxFields fields, no key twice; and no map.
CondMaps ==
    { Map(e) : e \in { s \in UNION { [ 1..n -> [ key : CondKeys,
                                                    value : CondValues ] ] :
                                      n \in 0..MaxFields } :
                        \A x, y \in 1..Len(s) : s[x].key = s[y].key => x = y } }
Conds == CondMaps \cup { Undefined, Null }

InitCond ==
    /\ controller \in { ctl \in Controllers :
                            DOMAIN ctl.connections = { "appbuilder", "site" } }
    /\ \E r \in { x \in RoomReqs : x.tenantID = TenantA } :
           Constructed([ i \in CtxIds |-> IF i = 1 THEN r ELSE NoCtx ])
    /\ NoQueries

NextCond ==
    \E i \in CtxIds, cond \in Conds :
        QueryWhereCondition(i, cond) /\ UNCHANGED ops

SpecCond == InitCond /\ [][NextCond]_vars

---------------------------------------------------------------------------
(* The query calls and the storage driver *)

\* The driver completes the execution in flight of call c.
DriverCompletes(c) ==
    /\ calls[c].pc = "inflight"
    /\ \E outcome \in Outcomes(c, calls[c].numRetries) :
           DriverReply(c, outcome)

InitQuery == InitCond

NextQuery ==
    \/ \E i \in CtxIds, c \in CallIds : Query(i, c) /\ UNCHANGED ops
    \/ \E c \in CallIds : DriverCompletes(c) /\ UNCHANGED ops

SpecQuery == InitQuery /\ [][NextQuery]_vars

---------------------------------------------------------------------------
(* Broadcasts of the contexts of two jobs, and the transport *)

Packet1 ==
    Obj([ room |-> Str(<<"a", "-", "c">>), event |-> Str(<<"e">>),
          data |-> Data1 ])
PacketLists == { Arr(<<Packet1>>) }

TransportError ==
    [ type |-> "error", message |-> <<"ETIMEDOUT">>, of |-> <<0, 0>>,
      sql |-> Undefined ]
\* What the transport answers a request with.
Replies ==
    { [ err |-> Null, results |-> Obj([ sent |-> Bool(TRUE) ]) ],
      [ err |-> TransportError, results |-> Undefined ] }

\* The job of the first context, and the job that arrives later.
FirstReq ==
    [ jobID |-> Str(<<"j", "1">>), tenantID |-> TenantA, user |-> User1,
      data |-> Data1, param |-> Undefined ]
SecondReq ==
    [ jobID |-> Str(<<"j", "2">>), tenantID |-> TenantAB, user |-> Undefined,
      data |-> Data1, param |-> Undefined ]

InitBroadcast ==
    /\ controller \in { ctl \in Controllers :
                            DOMAIN ctl.connections = { "appbuilder", "site" } }
    /\ Constructed([ i \in CtxIds |-> IF i = 1 THEN FirstReq ELSE NoCtx ])
    /\ NoQueries

NextBroadcast ==
    \/ NewRequest(2, SecondReq) /\ UNCHANGED ops
    \/ \E i \in CtxIds, packets \in PacketLists,
          cb \in { CallerCallback, NoCallback } :
           Broadcast(i, packets, cb) /\ UNCHANGED ops
    \/ \E k \in 1..Len(sent), r \in Replies :
           TransportReply(k, r.err, r.results) /\ UNCHANGED ops

SpecBroadcast == InitBroadcast /\ [][NextBroadcast]_vars

---------------------------------------------------------------------------
(* Factory contexts: toABFactoryReq on contexts and on what it returns *)

InitFactory ==
    /\ controller \in Controllers
    /\ \E r \in Reqs :
           Constructed([ i \in CtxIds |-> IF i = 1 THEN r ELSE NoCtx ])
    /\ NoQueries

NextFactory ==
    \/ \E i \in CtxIds : Mock(i) /\ UNCHANGED ops
    \/ \E i \in CtxIds, j \in CtxIds : ToABFactoryReq(i, j) /\ UNCHANGED ops

SpecFactory == InitFactory /\ [][NextFactory]_vars

---------------------------------------------------------------------------
(* The shortcuts dcCreate, dcDelete and dcUpdate, and the transport *)

EntityIds == { Str(<<"c">>) }
Items == { Data1 }
\* The optional arguments of a shortcut: the performance key, and whether
\* a node-style callback is passed.
DcOptions ==
    { [ key |-> Undefined, legacy |-> TRUE ],
      [ key |-> Str(<<"t">>), legacy |-> FALSE ] }

NextDc ==
    \/ NewRequest(2, SecondReq) /\ UNCHANGED ops
    \/ \E i \in CtxIds, id \in EntityIds, item \in Items, o \in DcOptions :
           DcCreate(i, id, item, o.key, o.legacy) /\ UNCHANGED ops
    \/ \E i \in CtxIds, id \in EntityIds, item \in Items, o \in DcOptions :
           DcDelete(i, id, item, o.key, o.legacy) /\ UNCHANGED ops
    \/ \E i \in CtxIds, id \in EntityIds, item \in Items, o \in DcOptions :
           DcUpdate(i, id, item, o.key, o.legacy) /\ UNCHANGED ops
    \/ \E k \in 1..Len(sent), r \in Replies :
           TransportReply(k, r.err, r.results) /\ UNCHANGED ops

SpecDc == InitBroadcast /\ [][NextDc]_vars

---------------------------------------------------------------------------
(* Every operation of a context, a bounded number of calls *)

MaxOps == 3

Data2 == Obj([ id |-> Num(7), name |-> Str(<<"n">>) ])
FrameReq ==
    [ jobID |-> Str(<<"j", "1">>), tenantID |-> TenantA, user |-> User1,
      data |-> Data2, param |-> Undefined ]
ParamKeys == { "id", "other" }
IgnoreLists == { <<>>, <<"id">> }
FrameConds ==
    { Map(<< [ key |-> <<"a">>, value |-> Num(1) ] >>) }

InitFrame ==
    /\ controller \in { ctl \in Controllers :
                            DOMAIN ctl.connections = { "appbuilder", "site" } }
    /\ Constructed([ i \in CtxIds |-> IF i = 1 THEN FrameReq ELSE NoCtx ])
    /\ NoQueries

\* One more call or reply.
Counted == ops < MaxOps /\ ops' = ops + 1

NextFrame ==
    \/ \E i \in CtxIds, key \in ParamKeys : Param(i, key) /\ Counted
    \/ \E i \in CtxIds, l \in IgnoreLists : Params(i, l) /\ Counted
    \/ \E i \in CtxIds : Change(i, "id", Num(8)) /\ Counted
    \/ \E i \in CtxIds : TenantID(i) /\ Counted
    \/ \E i \in CtxIds : SocketKey(i, Str(<<"c">>)) /\ Counted
    \/ \E i \in CtxIds : UserDefaults(i) /\ Counted
    \/ \E i \in CtxIds : ConfigDB(i) /\ Counted
    \/ \E i \in CtxIds, cond \in FrameConds :
           QueryWhereCondition(i, cond) /\ Counted
    \/ \E i \in CtxIds, c \in CallIds : Query(i, c) /\ Counted
    \/ \E c \in CallIds : DriverCompletes(c) /\ Counted
    \/ \E i \in CtxIds : ServiceRequest(i, Str(<<"k", "1">>), Data1) /\ Counted
    \/ \E i \in CtxIds, packets \in PacketLists :
           Broadcast(i, packets, CallerCallback) /\ Counted
    \/ \E i \in CtxIds, o \in DcOptions :
           DcCreate(i, Str(<<"c">>), Data1, o.key, o.legacy) /\ Counted
    \/ \E i \in CtxIds, o \in DcOptions :
           DcDelete(i, Str(<<"c">>), Data1, o.key, o.legacy) /\ Counted
    \/ \E i \in CtxIds, o \in DcOptions :
           DcUpdate(i, Str(<<"c">>), Data1, o.key, o.legacy) /\ Counted
    \/ \E k \in 1..Len(sent), r \in Replies :
           TransportReply(k, r.err, r.results) /\ Counted
    \/ \E i \in CtxIds, j \in CtxIds : ToABFactoryReq(i, j) /\ Counted

SpecFrame == InitFrame /\ [][NextFrame]_vars

---------------------------------------------------------------------------
(* The users of two jobs, and userDefaults *)

NameInputs == { Undefined, Null, Str(<<>>), Str(<<"u">>) }
LanguageInputs == { Undefined, Null, Str(<<>>), Str(<<"f", "r">>) }
\* req.user: absent, null, or a user with either field set or not.
Users ==
    { Undefined, Null }
    \cup { Obj([ username |-> n, languageCode |-> l ]) :
             n \in NameInputs, l \in LanguageInputs }
UserReqs ==
    [ jobID : { Str(<<"j", "1">>) }, tenantID : { TenantA }, user : Users,
      data : { Data1 }, param : { Undefined } ]

InitUser ==
    /\ controller \in { ctl \in Controllers :
                            DOMAIN ctl.connections = { "appbuilder", "site" } }
    /\ \E r \in UserReqs :
           Constructed([ i \in CtxIds |-> IF i = 1 THEN r ELSE NoCtx ])
    /\ NoQueries

\* Each context calls userDefaults once: the console grows with each call.
NextUser ==
    \/ \E r \in UserReqs : NewRequest(2, r) /\ UNCHANGED ops
    \/ \E i \in CtxIds : (ret[i] = NoRet /\ UserDefaults(i)) /\ UNCHANGED ops

SpecUser == InitUser /\ [][NextUser]_vars

---------------------------------------------------------------------------
(* The tenant database of a job *)

\* The `appbuilder` definition: with a database name, with an empty one, or
\* without.
AppbuilderDefs ==
    { DefAppbuilder, Obj([ database |-> Str(<<>>) ]),
      Obj([ host |-> Str(<<"h">>) ]) }
TenantTables ==
    { [ k \in { "site" } |-> DefSite ] }
    \cup { [ k \in { "appbuilder", "site" } |->
               IF k = "appbuilder" THEN d ELSE DefSite ] :
             d \in AppbuilderDefs }
Configs ==
    { EmptyObject, Obj([ site_only |-> Bool(TRUE) ]),
      Obj([ site_only |-> Bool(FALSE) ]) }
TenantControllers ==
    [ key : { Str(<<"s", "v", "c">>) }, config : Configs,
      connections : TenantTables ]
TenantReqs ==
    [ jobID : { Str(<<"j", "1">>) }, tenantID : TenantInputs,
      user : { Undefined }, data : { Data1 }, param : { Undefined } ]

InitTenant ==
    /\ controller \in TenantControllers
    /\ \E r \in TenantReqs :
           Constructed([ i \in CtxIds |-> IF i = 1 THEN r ELSE NoCtx ])
    /\ NoQueries

\* The calls of reject that queryTenantDB on context i made.
Rejects(i) ==
    { n \in 1..Len(log) : log[n].ev = "reject" /\ log[n].ctx = i }

\* A context calls queryTenantDB until it is rejected.
NextTenant ==
    \/ \E i \in CtxIds :
           (Rejects(i) = {} /\ QueryTenantDB(i)) /\ UNCHANGED ops
    \/ \E i \in CtxIds, j \in CtxIds : ToABFactoryReq(i, j) /\ UNCHANGED ops

SpecTenant == InitTenant /\ [][NextTenant]_vars

---------------------------------------------------------------------------
(* Query calls of two contexts, their completions interleaved *)

\* What the driver completes attempt n of call c with: a success, the
\* transient failure, or another failure.
QueriesOutcomes(c, n) ==
    { o \in Outcomes(c, n) :
        o.error = Null \/ o.error.message \in { <<Marker>> } \cup FatalMessages }

InitQueries ==
    /\ controller \in { ctl \in Controllers :
                            DOMAIN ctl.connections = { "appbuilder", "site" } }
    /\ Constructed([ i \in CtxIds |->
                       IF i = 1 THEN FirstReq
                       ELSE IF i = 2 THEN SecondReq ELSE NoCtx ])
    /\ NoQueries

NextQueries ==
    \/ \E i \in CtxIds, c \in CallIds : Query(i, c) /\ UNCHANGED ops
    \/ \E c \in CallIds :
           /\ calls[c].pc = "inflight"
           /\ \E outcome \in QueriesOutcomes(c, calls[c].numRetries) :
                  DriverReply(c, outcome)
           /\ UNCHANGED ops

SpecQueries == InitQueries /\ [][NextQueries]_vars

---------------------------------------------------------------------------
(* param, on the context of a job and on its factory contexts *)

\* The jobs: with data, with param in its place, or with neither.
ParamReqs ==
    [ jobID : { Str(<<"j", "1">>) }, tenantID : { TenantA, TenantAB },
      user : { Undefined }, data : { Undefined, Data2 },
      param : { Undefined, Data1 } ]

InitParam ==
    /\ controller \in { ctl \in Controllers :
                            DOMAIN ctl.connections = { "appbuilder", "site" } }
    /\ \E r \in ParamReqs :
           Constructed([ i \in CtxIds |-> IF i = 1 THEN r ELSE NoCtx ])
    /\ NoQueries

NextParam ==
    \/ \E i \in CtxIds, key \in { "id", "name", "other" } :
           Param(i, key) /\ UNCHANGED ops
    \/ \E i \in CtxIds, j \in CtxIds : ToABFactoryReq(i, j) /\ UNCHANGED ops

SpecParam == InitParam /\ [][NextParam]_vars

---------------------------------------------------------------------------
(* Properties of query, under SpecQuery *)

Last(s) == s[Len(s)]

TransientFailure(o) ==
    o.error # Null /\ o.error.message \in TransientMessages
FatalFailure(o) ==
    o.error # Null /\ o.error.message \in FatalMessages

\* Every execution of call c so far failed with the transient class.
AllTransient(c) ==
    \A k \in 1..Len(completed[c]) : TransientFailure(completed[c][k])

\* The call has ended after failing with the transient class every time.
Exhausted(c) ==
    calls[c].pc = "done" /\ completed[c] # <<>> /\ AllTransient(c)

\* C1 as stated: when every execution of a query call fails with the
\* transient class, the callback receives the outcome of the first attempt.
C1_FirstOutcomeDelivered ==
    \A c \in CallIds :
        Exhausted(c) => delivered[c] = <<completed[c][1]>>

\* C1 as amended: when every execution of a query call fails with the
\* transient class, the callback receives the error, results and fields of
\* the fourth, last attempt, as the driver produced them.
C1_LastOutcomeDelivered ==
    \A c \in CallIds :
        Exhausted(c) =>
            /\ Len(completed[c]) = 4
            /\ delivered[c] = <<completed[c][4]>>
            /\ delivered[c][1] # completed[c][1]

C1_Witness ==
    \E c \in CallIds : Exhausted(c) /\ Len(delivered[c]) = 1

\* C2: a query call whose every execution fails with the transient class
\* is executed exactly 4 times: each of the first three failures issues the
\* next execution and no callback, the fourth issues none and the callback
\* is invoked once; no call is ever executed more than 4 times.
C2_FourExecutions ==
    \A c \in CallIds :
        /\ Len(driver[c]) <= 4
        /\ Len(delivered[c]) <= 1
        /\ (AllTransient(c) /\ calls[c].pc # "idle") =>
               IF Len(completed[c]) < 4
               THEN /\ calls[c].pc = "inflight"
                    /\ calls[c].numRetries = Len(completed[c])
                    /\ Len(driver[c]) = Len(completed[c]) + 1
                    /\ delivered[c] = <<>>
               ELSE /\ calls[c].pc = "done"
                    /\ Len(completed[c]) = 4
                    /\ Len(driver[c]) = 4
                    /\ Len(delivered[c]) = 1

C2_Witness ==
    \E c \in CallIds :
        Exhausted(c) /\ Len(driver[c]) = 4 /\ Len(completed[c]) = 4

\* C3: an execution that fails with an error outside the transient class,
\* at any attempt, ends the call: no further execution is issued and the
\* callback is invoked once with that error, now carrying the text the
\* driver executed, and with the results and fields of that attempt.
C3_NonTransientForwarded ==
    \A c \in CallIds :
        (completed[c] # <<>> /\ FatalFailure(Last(completed[c]))) =>
            /\ calls[c].pc = "done"
            /\ Len(driver[c]) = Len(completed[c])
            /\ Last(driver[c]).q.sql.text = QueryText(c)
            /\ Last(driver[c]).q.sql.values = QueryValues(c)
            /\ delivered[c] =
                   << [ error |-> [ Last(completed[c]).error EXCEPT
                                      !.sql = Last(driver[c]).q.sql ],
                        results |-> Last(completed[c]).results,
                        fields |-> Last(completed[c]).fields ] >>

C3_Witness ==
    \E c \in CallIds :
        /\ Len(completed[c]) = 4
        /\ FatalFailure(completed[c][4])
        /\ Len(delivered[c]) = 1

\* C4: an execution that succeeds, on the first attempt or after transient
\* failures, ends the call: the callback is invoked once with a null error
\* and the results and fields of that execution.
C4_SuccessForwarded ==
    \A c \in CallIds :
        (completed[c] # <<>> /\ Last(completed[c]).error = Null) =>
            /\ calls[c].pc = "done"
            /\ Len(driver[c]) = Len(completed[c])
            /\ delivered[c] =
                   << [ error |-> Null,
                        results |-> [ type |-> "results",
                                      of |-> <<c, Len(completed[c]) - 1>> ],
                        fields |-> [ type |-> "fields",
                                     of |-> <<c, Len(completed[c]) - 1>> ] ] >>

C4_Witness ==
    \E c \in CallIds :
        /\ Len(completed[c]) = 4
        /\ \A k \in 1..3 : TransientFailure(completed[c][k])
        /\ completed[c][4].error = Null
        /\ Len(delivered[c]) = 1

---------------------------------------------------------------------------
(* Properties of the context, under Spec and SpecRooms *)

\* The identity a context has by construction from its job.
JobOf(i) == IF req[i].jobID = Undefined THEN Unknown ELSE req[i].jobID
TenantOf(i) ==
    IF req[i].tenantID \in { Undefined, Null } THEN Unknown
    ELSE req[i].tenantID
UserOf(i) == IF req[i].user = Undefined THEN Null ELSE req[i].user

\* C5: configDB returns the definition under "appbuilder" for a context
\* constructed with a tenant id, and the one under "site" for a context
\* constructed with "??", null or none; when that key is missing from the
\* table it returns null, never the definition under the other key.
C5_RoutedConnection ==
    \A i \in CtxIds :
        ret[i].op = "configDB" =>
            LET key == IF req[i].tenantID \in { Undefined, Null, Unknown }
                       THEN "site" ELSE "appbuilder"
                table == controller.connections
            IN  ret[i].value =
                    IF key \in DOMAIN table THEN table[key] ELSE Null

C5_Witness ==
    /\ ret[1].op = "configDB"
    /\ req[1].tenantID = TenantAB
    /\ DOMAIN controller.connections = { "site" }
    /\ ret[1].value = Null

\* C6: two contexts with different tenant ids never name the same room,
\* whatever the keys.
C6_NoSharedRoom ==
    \A i, j \in CtxIds :
        ( /\ ret[i].op = "socketKey"
          /\ ret[j].op = "socketKey"
          /\ ctx[i]._tenantID # ctx[j]._tenantID ) =>
            ret[i].value # ret[j].value

\* C7: socketKey(k) is the tenant id, then "-", then k; and for one k, two
\* contexts with different tenant ids name different rooms.
C7_RoomIsTenantDashKey ==
    /\ \A i \in CtxIds :
           ret[i].op = "socketKey" =>
               ret[i].value =
                   Str(TenantOf(i).chars \o <<"-">> \o ret[i].args[1].chars)
    /\ \A i, j \in CtxIds :
           ( /\ ret[i].op = "socketKey"
             /\ ret[j].op = "socketKey"
             /\ ret[i].args = ret[j].args
             /\ TenantOf(i) # TenantOf(j) ) =>
               ret[i].value # ret[j].value

C7_Witness ==
    /\ ret[1].op = "socketKey"
    /\ ret[2].op = "socketKey"
    /\ ret[1].args = ret[2].args
    /\ TenantOf(1) = TenantA
    /\ TenantOf(2) = TenantAB
    /\ ret[1].value # ret[2].value

\* A payload that `data || {}` replaces.
Falsy(v) == v \in { Undefined, Null, Num(0), Str(<<>>), Bool(FALSE) }

\* The envelope of a send, with the given data.
EnvelopeOf(entry, data) ==
    [ type |-> entry.key,
      param |-> [ jobID |-> JobOf(entry.ctx), tenantID |-> TenantOf(entry.ctx),
                  user |-> UserOf(entry.ctx), data |-> data ] ]

\* C10 as stated: every envelope is {type: serviceKey, param: {jobID,
\* tenantID, user, data}} with the context's identity as constructed and
\* with data the payload the caller passed.
C10_EnvelopeCarriesPayload ==
    \A k \in 1..Len(sent) : sent[k].envelope = EnvelopeOf(sent[k], sent[k].data)

\* C10 as amended: the envelope carries the context's identity as
\* constructed, the same in every envelope of that context, and data is the
\* payload the caller passed, or an empty object when that payload is
\* absent or another falsy value.
C10_EnvelopeDefaultsPayload ==
    /\ \A k \in 1..Len(sent) :
           sent[k].envelope =
               EnvelopeOf(sent[k], IF Falsy(sent[k].data) THEN EmptyObject
                                   ELSE sent[k].data)
    /\ \A k, l \in 1..Len(sent) :
           sent[k].ctx = sent[l].ctx =>
               /\ sent[k].envelope.param.jobID = sent[l].envelope.param.jobID
               /\ sent[k].envelope.param.tenantID =
                      sent[l].envelope.param.tenantID
               /\ sent[k].envelope.param.user = sent[l].envelope.param.user

C10_Witness ==
    /\ Len(sent) = 2
    /\ sent[1].data = Null
    /\ sent[1].envelope.param.data = EmptyObject
    /\ sent[2].data = Data1
    /\ sent[2].envelope.param.data = Data1
    /\ sent[1].key # sent[2].key

---------------------------------------------------------------------------
(* Properties of queryWhereCondition, under SpecCond *)

IsEmptyArray(v) == v.type = "array" /\ v.items = <<>>
HasPlaceholder(e) == ~IsEmptyArray(e.value)

\* The fields that put a placeholder in the predicate, in key order.
Holders(entries) == SelectSeq(entries, HasPlaceholder)

\* The clause of a field, with `empty` the one of an empty array.
ClauseOf(e, empty) ==
    IF IsEmptyArray(e.value) THEN empty
    ELSE IF e.value.type = "array"
         THEN e.key \o <<" ", "I", "N", " ", "(", " ", "?", " ", ")">>
         ELSE e.key \o <<" ", "=", " ", "?">>

\* The clauses joined with " AND " in key order.
Predicate(entries, empty) ==
    Str(Join([ k \in 1..Len(entries) |-> ClauseOf(entries[k], empty) ],
             <<" ", "A", "N", "D", " ">>))

\* The calls of queryWhereCondition on a condition map.
OnMap(i) == ret[i].op = "queryWhereCondition" /\ ret[i].args[1] \in CondMaps

\* C8: the values have as many elements as the predicate has placeholders,
\* the i-th being the value of the field of the i-th placeholder, an array
\* as one element; with no empty array in the map the predicate is the
\* clauses `field = ?` and `field IN ( ? )` joined with " AND " in key order.
C8_ValuesAlignWithPlaceholders ==
    \A i \in CtxIds :
        OnMap(i) =>
            LET entries == ret[i].args[1].entries
                out == ret[i].value
                holders == Holders(entries)
            IN  /\ Len(out.values.items) = Count(out.condition.chars, "?")
                /\ out.values.items =
                       [ k \in 1..Len(holders) |-> holders[k].value ]
                /\ (holders = entries) =>
                       out.condition = Predicate(entries, <<>>)

C8_Witness ==
    /\ ret[1].op = "queryWhereCondition"
    /\ ret[1].args[1] =
           Map(<< [ key |-> <<"i", "d">>, value |-> Arr(<<Num(1), Num(2)>>) ],
                  [ key |-> <<"a">>, value |-> Num(5) ] >>)
    /\ ret[1].value.values = Arr(<<Arr(<<Num(1), Num(2)>>), Num(5)>>)
    /\ ret[1].value.condition =
           Str(<<"i", "d", " ", "I", "N", " ", "(", " ", "?", " ", ")",
                 " ", "A", "N", "D", " ", "a", " ", "=", " ", "?">>)

\* C9 as stated: an empty array contributes the clause "1 = 0" and no
\* value, so {a: []} gives exactly "1 = 0" and no values, and the values of
\* the other fields stay aligned.
C9_EmptyArrayClauseBare ==
    \A i \in CtxIds :
        (OnMap(i) /\ Holders(ret[i].args[1].entries) # ret[i].args[1].entries) =>
            LET entries == ret[i].args[1].entries
                holders == Holders(entries)
            IN  /\ ret[i].value.condition =
                       Predicate(entries, <<"1", " ", "=", " ", "0">>)
                /\ ret[i].value.values.items =
                       [ k \in 1..Len(holders) |-> holders[k].value ]

\* C9 as amended: an empty array contributes the clause " 1 = 0 ", with a
\* space before and after, and no value, so {a: []} gives exactly " 1 = 0 "
\* and no values, and the values of the other fields stay aligned.
C9_EmptyArrayClausePadded ==
    \A i \in CtxIds :
        (OnMap(i) /\ Holders(ret[i].args[1].entries) # ret[i].args[1].entries) =>
            LET entries == ret[i].args[1].entries
                holders == Holders(entries)
            IN  /\ ret[i].value.condition =
                       Predicate(entries, <<" ", "1", " ", "=", " ", "0", " ">>)
                /\ ret[i].value.values.items =
                       [ k \in 1..Len(holders) |-> holders[k].value ]
                /\ Len(ret[i].value.values.items) =
                       Count(ret[i].value.condition.chars, "?")

C9_Witness ==
    /\ ret[1].op = "queryWhereCondition"
    /\ ret[1].args[1] = Map(<< [ key |-> <<"a">>, value |-> Arr(<<>>) ] >>)
    /\ ret[1].value.condition = Str(<<" ", "1", " ", "=", " ", "0", " ">>)
    /\ ret[1].value.values = Arr(<<>>)

---------------------------------------------------------------------------
(* Properties of broadcast, under SpecBroadcast *)

\* The positions of the log where an event of request k of the given kind is.
Events(kind, k) ==
    { n \in 1..Len(log) : log[n].ev = kind /\ log[n].request = k }

Alerts == { n \in 1..Len(log) : log[n].ev = "alert" }

Replied(k) == sent[k].reply # NoReply

Failed(k) == Replied(k) /\ Truthy(sent[k].reply.err)

\* C11: every broadcast(packets, callback) sends the packets through
\* serviceRequest under the key "api.broadcast"; a reply with an error
\* raises a developer alert carrying the context's tenantID and jobID and
\* then callback(error, results) is invoked with that error; a reply without
\* error raises no alert; the callback is invoked exactly once per reply,
\* and the alert is raised on error also when no callback was given.
C11_AlertThenCallback ==
    /\ \A n \in 1..Len(log) :
           log[n].ev = "sent" =>
               /\ sent[log[n].request].key = ApiBroadcast
               /\ sent[log[n].request].data = log[n].packets
               /\ sent[log[n].request].ctx = log[n].on
               /\ sent[log[n].request].cb.cb = log[n].cb
    /\ \A k \in 1..Len(sent) :
           LET called == Events("callback", k)
           IN  /\ Cardinality(called) =
                      IF Replied(k) /\ sent[k].cb.cb = CallerCallback
                      THEN 1 ELSE 0
               /\ \A n \in called :
                      /\ log[n].err = sent[k].reply.err
                      /\ log[n].results = sent[k].reply.results
                      /\ Truthy(log[n].err) =>
                             /\ n > 1
                             /\ log[n - 1].ev = "alert"
                             /\ log[n - 1].error = log[n].err
                             /\ log[n - 1].domain = "developer"
                             /\ log[n - 1].info.tenantID
                                    = ctx[sent[k].ctx]._tenantID
                             /\ log[n - 1].info.jobID = ctx[sent[k].ctx].jobID
    /\ Cardinality(Alerts) = Cardinality({ k \in 1..Len(sent) : Failed(k) })
    /\ \A n \in Alerts :
           \E k \in 1..Len(sent) :
               /\ Failed(k)
               /\ log[n].error = sent[k].reply.err
               /\ log[n].info = [ tenantID |-> ctx[sent[k].ctx]._tenantID,
                                  jobID |-> ctx[sent[k].ctx].jobID ]

\* An error reply to a broadcast with a callback and one to a broadcast
\* without, of contexts of two tenants: two alerts, one callback.
C11_Witness ==
    /\ Len(sent) = 2
    /\ sent[1].ctx = 1 /\ sent[1].cb.cb = CallerCallback /\ Failed(1)
    /\ sent[2].ctx = 2 /\ sent[2].cb.cb = NoCallback /\ Failed(2)
    /\ Cardinality(Alerts) = 2
    /\ Cardinality(Events("callback", 1)) = 1

---------------------------------------------------------------------------
(* Properties of dcCreate, dcDelete and dcUpdate, under SpecDc *)

\* The call of a shortcut that request k comes from.
DcCall(k) == sent[k].cb.cb

\* C12: each call of dcCreate, dcUpdate or dcDelete on a context, with
\* entity id e and item x, issues exactly one broadcast carrying exactly one
\* packet, whose room is socketKey(e) of that context (its tenant id, "-",
\* e), whose event is the name of that operation, and whose data holds e
\* and x.
C12_PacketOfCalledContext ==
    /\ Cardinality({ n \in 1..Len(log) : log[n].ev = "sent" }) = Len(sent)
    /\ \A k \in 1..Len(sent) :
           /\ sent[k].key = ApiBroadcast
           /\ Len(sent[k].data.items) = 1
           /\ LET packet == sent[k].data.items[1].fields
              IN  /\ packet.room =
                         Str(ctx[DcCall(k).on]._tenantID.chars \o <<"-">>
                             \o DcCall(k).id.chars)
                  /\ packet.event =
                         Str(<<"ab", ".", "datacollection", ".",
                               DcCall(k).name>>)
                  /\ packet.data.fields.objectId = DcCall(k).id
                  /\ packet.data.fields.data = DcCall(k).item

\* The settlements of the promise of request k.
Settled(k) == Events("rejected", k) \cup Events("resolved", k)

\* C13: for a dcCreate, dcUpdate or dcDelete call given a legacy callback,
\* once the broadcast replies the callback has been invoked exactly once and
\* the promise settled exactly once; the promise is rejected with error E
\* exactly when the callback received E, and resolved exactly when the
\* callback received no error; before the reply neither has happened.
C13_CallbackAndPromiseAgree ==
    \A k \in 1..Len(sent) :
        DcCall(k).legacy =>
            /\ Cardinality(Events("legacy", k)) = IF Replied(k) THEN 1 ELSE 0
            /\ Cardinality(Settled(k)) = IF Replied(k) THEN 1 ELSE 0
            /\ \A n \in Events("legacy", k) :
                   /\ log[n].err = sent[k].reply.err
                   /\ Truthy(log[n].err) <=>
                          \E m \in Events("rejected", k) :
                              log[m].err = log[n].err
                   /\ ~Truthy(log[n].err) <=> Events("resolved", k) # {}

\* Two calls with a legacy callback, one answered with an error and one
\* without: the first is rejected, the second resolved.
C13_Witness ==
    /\ Len(sent) = 2
    /\ DcCall(1).legacy /\ Failed(1) /\ Events("rejected", 1) # {}
    /\ Events("legacy", 1) # {}
    /\ DcCall(2).legacy /\ Replied(2) /\ ~Failed(2)
    /\ Events("resolved", 2) # {} /\ Events("legacy", 2) # {}

\* The name of the timer of the call request k comes from: perfKey, or the
\* default built from the operation and the entity id.
TimerOf(k) ==
    IF DcCall(k).key # Undefined THEN DcCall(k).key
    ELSE Str(<<"broadcast", ".", "dc", ".", DcCall(k).name, ".">>
             \o DcCall(k).id.chars)

Measures == { n \in 1..Len(log) : log[n].ev = "measure" }

\* C20: in every dcCreate, dcUpdate or dcDelete call the timer named by
\* perfKey, or by the default name, is started before the broadcast is
\* sent; it is stopped exactly once, under the same name, when the broadcast
\* replies, with or without error, and before the legacy callback is
\* invoked; the legacy callback is invoked before the promise is settled;
\* no timer is stopped before the reply.
C20_MarkSendMeasureCallbackSettle ==
    /\ \A k \in 1..Len(sent) :
           /\ \E n \in Events("sent", k) :
                  /\ n > 1
                  /\ log[n - 1] =
                         [ ev |-> "mark", ctx |-> sent[k].ctx,
                           key |-> TimerOf(k) ]
           /\ Replied(k) =>
                  \E n \in Settled(k) :
                      LET m == IF DcCall(k).legacy THEN n - 2 ELSE n - 1
                      IN  /\ \E sn \in Events("sent", k) : m > sn
                          /\ log[m] =
                                 [ ev |-> "measure", ctx |-> sent[k].ctx,
                                   key |-> TimerOf(k) ]
                          /\ DcCall(k).legacy =>
                                 /\ log[n - 1].ev = "legacy"
                                 /\ log[n - 1].request = k
                          /\ log[n].ev = "rejected" <=> Failed(k)
    /\ Cardinality(Measures) =
           Cardinality({ k \in 1..Len(sent) : Replied(k) })

\* A call with the default timer name and a legacy callback, answered with
\* an error, and a call with a timer name of its own, answered without.
C20_Witness ==
    /\ Len(sent) = 2
    /\ DcCall(1).key = Undefined /\ DcCall(1).legacy /\ Failed(1)
    /\ DcCall(2).key # Undefined /\ Replied(2) /\ ~Failed(2)
    /\ Cardinality(Measures) = 2
    /\ \E n \in Measures : log[n].key = TimerOf(1)
    /\ \E n \in Measures : log[n].key = TimerOf(2)

---------------------------------------------------------------------------
(* Properties of toABFactoryReq, under SpecFactory *)

\* The contexts whose last call was toABFactoryReq.
Factories == { i \in CtxIds : ret[i].op = "toABFactoryReq" }

\* What C14 says of the returned context, but for the jobID being different.
FactoryOf(i) ==
    LET c == ret[i].before
        f == ret[i].value.fields
    IN  /\ ret[i].value.ref # i
        /\ f._tenantID = c._tenantID
        /\ f._DBConn = c._DBConn
        /\ f._Model = c._Model
        /\ f.controller = c.controller
        /\ f.data = Undefined
        /\ f._user = Null
        /\ f.jobID = Str(<<"ABFactory", "(">> \o c._tenantID.chars \o <<")">>)
        /\ \A j \in Factories :
               ret[j].before._tenantID = c._tenantID =>
                   ret[j].value.fields.jobID = f.jobID
        /\ ctx[i] = c

\* C14 as stated: toABFactoryReq on a context c returns a new context with
\* c's tenant id, c's storage-driver and model bindings, c's controller, no
\* data and no user, whose jobID is a function of the tenant id alone and
\* differs from c's jobID; c is left unchanged.
C14_FactoryJobDiffers ==
    \A i \in Factories :
        FactoryOf(i) /\ ret[i].value.fields.jobID # ret[i].before.jobID

\* C14 as amended: the same, but the jobID differs from c's only when c's
\* jobID is not already "ABFactory(<tenant id>)", as it is when c was itself
\* returned by toABFactoryReq.
C14_FactoryJobDiffersUnlessFactory ==
    \A i \in Factories :
        /\ FactoryOf(i)
        /\ ret[i].value.fields.jobID = ret[i].before.jobID
               <=> ret[i].before.jobID = FactoryReq(ret[i].before).jobID

\* A context with mocks substituted returns a factory context, which returns
\* a factory context in its turn, with the same jobID.
C14_Witness ==
    /\ ret[1].op = "toABFactoryReq"
    /\ ret[1].before._DBConn = "MockDBConn"
    /\ ret[1].value.ref = 2
    /\ ret[1].value.fields._DBConn = "MockDBConn"
    /\ ret[1].value.fields.jobID # ret[1].before.jobID
    /\ ret[2].op = "toABFactoryReq"
    /\ ret[2].value.ref = 3
    /\ ret[2].value.fields.jobID = ret[2].before.jobID

---------------------------------------------------------------------------
(* Properties of the whole context, under SpecFrame *)

\* The contexts constructed so far.
Live == { i \in CtxIds : ctx[i] # NoCtx }

\* The caller of params on context i has changed the map it was handed.
ChangedResult(i) ==
    /\ ret[i].op = "params"
    /\ ret[i].value.type = "reference"
    /\ ret[i].value.obj # params(ctx[i], ret[i].args[1]).obj

\* C15: after construction no sequence of operations of a context changes
\* its jobID, tenant id, user or serviceKey, nor the contents of data; the
\* map params returns is a new one, so changing it leaves data as it was.
C15_IdentityAndDataUnchanged ==
    \A i \in Live :
        LET c == Constructor(req[i], controller)
        IN  /\ ctx[i].jobID = c.jobID
            /\ ctx[i]._tenantID = c._tenantID
            /\ ctx[i]._user = c._user
            /\ ctx[i].serviceKey = c.serviceKey
            /\ ctx[i].data = c.data

\* The caller changed the map params returned and data is what the job
\* carried, after a factory context was derived.
C15_Witness ==
    /\ ChangedResult(1)
    /\ ret[1].value.obj.fields.id = Num(8)
    /\ ctx[1].data = Data2
    /\ ctx[2] # NoCtx
    /\ ops = MaxOps

---------------------------------------------------------------------------
(* Properties of userDefaults, under SpecUser *)

\* A field of the user is set: it is there and is not null nor empty.
IsSet(u, name) ==
    /\ u \notin { Undefined, Null }
    /\ name \in DOMAIN u.fields
    /\ u.fields[name] \notin { Undefined, Null, Str(<<>>) }

\* C19: userDefaults returns {languageCode: "en", username: "_system_"} when
\* the context has no user or the user has neither field set; each of the
\* two fields is the user's own value when that is set and its fallback
\* otherwise, whatever the other field is.
C19_UserDefaultsFallBack ==
    \A i \in CtxIds :
        ret[i].op = "userDefaults" =>
            LET u == Or(req[i].user, Null)
                d == ret[i].value.fields
            IN  /\ DOMAIN d = { "languageCode", "username" }
                /\ d.languageCode =
                       IF IsSet(u, "languageCode") THEN u.fields.languageCode
                       ELSE Str(<<"e", "n">>)
                /\ d.username =
                       IF IsSet(u, "username") THEN u.fields.username
                       ELSE Str(<<"_system_">>)

\* A job without user gets both fallbacks, and a job whose user has a name
\* and no language gets "en" and the name.
C19_Witness ==
    /\ req[1].user = Undefined
    /\ ret[1].op = "userDefaults"
    /\ ret[1].value =
           Obj([ languageCode |-> Str(<<"e", "n">>),
                 username |-> Str(<<"_system_">>) ])
    /\ ctx[2] # NoCtx
    /\ req[2].user =
           Obj([ username |-> Str(<<"u">>), languageCode |-> Str(<<>>) ])
    /\ ret[2].op = "userDefaults"
    /\ ret[2].value =
           Obj([ languageCode |-> Str(<<"e", "n">>),
                 username |-> Str(<<"u">>) ])

---------------------------------------------------------------------------
(* Properties of queryTenantDB, under SpecTenant *)

\* The connection definition the context is routed to: `appbuilder` with a
\* tenant, `site` without.
Routed(i) ==
    LET defs == ctx[i].controller.connections
        key == IF ctx[i]._tenantID = Unknown THEN "site" ELSE "appbuilder"
    IN  IF key \in DOMAIN defs THEN defs[key] ELSE Null

\* No tenant database is resolvable for context i.
Unresolvable(i) ==
    \/ ctx[i]._tenantID = Unknown
    \/ /\ "site_only" \in DOMAIN ctx[i].controller.config.fields
       /\ ctx[i].controller.config.fields.site_only = Bool(TRUE)
    \/ Routed(i) = Null
    \/ "database" \notin DOMAIN Routed(i).fields
    \/ Routed(i).fields.database = Str(<<>>)

\* C16: queryTenantDB(reject) invokes reject exactly once, with an error of
\* code ENOTENANT, and returns false, exactly when no tenant database is
\* resolvable; in every other case it returns the name of the tenant
\* database, made of the database name, "-" and the tenant id, and does not
\* invoke reject.
C16_RejectsExactlyWhenNoTenantDB ==
    \A i \in CtxIds :
        ret[i].op = "queryTenantDB" =>
            IF Unresolvable(i)
            THEN /\ ret[i].value = Bool(FALSE)
                 /\ Cardinality(Rejects(i)) = 1
                 /\ \A n \in Rejects(i) : log[n].error.code = "ENOTENANT"
            ELSE /\ ret[i].value =
                        Str(<<Backtick>> \o Routed(i).fields.database.chars
                            \o <<"-">> \o ctx[i]._tenantID.chars
                            \o <<Backtick>>)
                 /\ Rejects(i) = {}

\* A job of tenant "a" under a site_only configuration whose `appbuilder`
\* definition names a database: rejected; its factory context, too.
C16_Witness ==
    /\ ctx[1]._tenantID = TenantA
    /\ controller.config = Obj([ site_only |-> Bool(TRUE) ])
    /\ Routed(1) = DefAppbuilder
    /\ ret[1].op = "queryTenantDB"
    /\ ret[1].value = Bool(FALSE)
    /\ Cardinality(Rejects(1)) = 1
    /\ ctx[2] # NoCtx
    /\ ret[2].op = "queryTenantDB"
    /\ Cardinality(Rejects(2)) = 1

---------------------------------------------------------------------------
(* Properties of interleaved query calls, under SpecQueries *)

\* The number of executions of call c that failed with the transient class.
TransientFailures(c) ==
    Cardinality({ k \in 1..Len(completed[c]) :
                    TransientFailure(completed[c][k]) })

\* C17: the retry budget belongs to one query call: with several calls in
\* flight, on one context or on several, their completions interleaved in
\* any order, a call whose executions all failed with the transient class
\* is executed again until it has used its own 3 retries, whatever the
\* other calls have used, and its callback is invoked exactly once, with an
\* outcome of one of its own attempts.
C17_OwnRetryBudget ==
    \A c \in CallIds :
        /\ Len(driver[c]) <= RetryLimit + 1
        /\ calls[c].pc = "inflight" =>
               /\ AllTransient(c)
               /\ calls[c].numRetries = TransientFailures(c)
               /\ Len(driver[c]) = TransientFailures(c) + 1
               /\ delivered[c] = <<>>
        /\ (calls[c].pc # "idle" /\ AllTransient(c)
              /\ Len(completed[c]) <= RetryLimit) =>
               calls[c].pc = "inflight"
        /\ calls[c].pc = "done" =>
               /\ Len(delivered[c]) = 1
               /\ delivered[c][1].results \in
                      { completed[c][k].results :
                          k \in 1..Len(completed[c]) }
               /\ delivered[c][1].results.of[1] = c
        /\ calls[c].pc = "idle" => delivered[c] = <<>> /\ driver[c] = <<>>

\* Two calls on two contexts: the first has used its four executions and
\* ended, the second is in flight at its third retry.
C17_Witness ==
    /\ Exhausted(1)
    /\ Len(driver[1]) = 4
    /\ calls[2].pc = "inflight"
    /\ calls[2].numRetries = 3
    /\ calls[1].this # calls[2].this

---------------------------------------------------------------------------
(* Properties of the attempts of one query call, under SpecQuery *)

\* C18: within one query call at most one driver execution is in flight at
\* any time, attempt n+1 is issued only after attempt n has completed with
\* a transient failure, and the callback is not invoked while an attempt of
\* the call is in flight.
C18_AttemptsSequenced ==
    \A c \in CallIds :
        LET inflight == Len(driver[c]) - Len(completed[c])
        IN  /\ inflight \in { 0, 1 }
            /\ inflight = 1 <=> calls[c].pc = "inflight"
            /\ \A n \in 1..Len(driver[c]) :
                   /\ driver[c][n].numRetries = n - 1
                   /\ n > 1 =>
                          /\ n - 1 <= Len(completed[c])
                          /\ TransientFailure(completed[c][n - 1])
            /\ delivered[c] # <<>> => inflight = 0

\* A call at its second attempt, in flight after a transient failure, while
\* the other call has ended.
C18_Witness ==
    /\ Len(driver[1]) = 2
    /\ Len(completed[1]) = 1
    /\ TransientFailure(completed[1][1])
    /\ delivered[1] = <<>>
    /\ calls[2].pc = "done"
    /\ Len(delivered[2]) = 1

---------------------------------------------------------------------------
(* Properties of param, under SpecParam *)

\* C21: for every context and every key, param(key) returns the value data
\* holds under that key, or undefined when there is none, and does not end
\* in an error; on a context built from a job and on a factory context,
\* which carries no data.
C21_ParamNeverThrows ==
    \A i \in CtxIds :
        ret[i].op = "param" =>
            LET data == ctx[i].data
                key == ret[i].args[1]
            IN  /\ ret[i].value.type # "thrown"
                /\ ret[i].value =
                       IF data # Undefined /\ key \in DOMAIN data.fields
                       THEN data.fields[key]
                       ELSE Undefined

====
